---- MODULE Spec2Model ----
(***************************************************************************)
(* A model of package pipedream: MultipartUpload.Send and the background   *)
(* task MultipartUpload.run, with the byte source (io.Reader) and the S3   *)
(* backend as the environment.                                             *)
(*                                                                         *)
(* The event channel is unbuffered and its consumer keeps receiving, so a  *)
(* send on it is a rendezvous: it is modelled by appending the event to    *)
(* the history hist.  hist also records, in order, every read of the       *)
(* source and every backend call, so that the order of events and calls    *)
(* can be stated.                                                          *)
(***************************************************************************)
EXTENDS Integers, Sequences, FiniteSets, TLC

\* ---------------------------------------------------------------- bounds
\* Largest number of bytes a source delivers in total.
MaxSourceBytes == 2
\* Largest number of reads of one source that return without an error
\* (after them the source reports io.EOF or fails).
MaxReads == 2
\* Largest explicit value of the MaxRetries field; the field also takes -1
\* and 0, and 0 stands for the default.
MaxRetriesBound == 2
\* Largest explicit value of the MaxPartSize field; 0 stands for the default.
\* (The model covers MaxPartSize >= 0, the sizes make([]byte, n) accepts.)
MaxPartBound == 1
\* Number of Send invocations the model has room for.
MaxSends == 2
\* Number of calls of the public method Abort the client makes itself.
MaxClientAborts == 1
\* Longest list of words handed to EnglishJoin.
MaxWords == 4

\* ------------------------------------------------------ program constants
Kilobyte == 1024
Megabyte == Kilobyte * 1024
DefaultMaxRetries == 3
DefaultMaxPartSize == Megabyte * 5
DefaultEndpoint == "nyc3.digitaloceanspaces.com"
DefaultRegion == "us-east-1"

Invs == 1..MaxSends

Min(a, b) == IF a < b THEN a ELSE b

VARIABLES
  m,           \* the MultipartUpload value (shared by every Send on it)
  pc,          \* pc[i]: position of the background task of invocation i
  totalBytes,  \* totalBytes[i]: run's local totalBytes
  buf,         \* buf[i]: len(buf), and which source bytes buf[:n] holds
  n,           \* n[i]: run's local n (result of the last Read)
  err,         \* err[i]: run's local err
  part,        \* part[i]: run's local part (result of uploadPart)
  frame,       \* frame[i]: the activation of uploadPart
  src,         \* src[r]: the state of the reader handed to Send number r
  nextId,      \* backend: the next upload identifier it hands out
  crashed,     \* TRUE once a goroutine panicked (the process is gone)
  hist,        \* history of reads, backend calls and channel sends
  join,        \* a call of EnglishJoin: its arguments and its result
  cli          \* the command-line tool: its event loop and its main goroutine

vars == <<m, pc, totalBytes, buf, n, err, part, frame, src, nextId, crashed, hist,
          join, cli>>

\* ------------------------------------------------------------ data model
\* m.res: nil, or the *s3.CreateMultipartUploadOutput of the initiate call.
NilRes == [nil |-> TRUE, UploadId |-> 0]
Output(id) == [nil |-> FALSE, UploadId |-> id]

\* One history entry: a channel send (kind "event") or a read of the source
\* or backend call (kind "call").  Every entry has all fields.
Blank ==
  [inv |-> 0, kind |-> "", name |-> "", PartNumber |-> 0, Bytes |-> 0,
   RetryNumber |-> 0, MaxRetries |-> 0, Err |-> <<>>, UploadId |-> 0,
   off |-> 0, ok |-> TRUE, parts |-> <<>>]

\* A slip in the Progress event: the two numbers are swapped.
Progress_Swapped(i, partNumber, bytes) ==
  [Blank EXCEPT !.inv = i, !.kind = "event", !.name = "Progress",
                !.PartNumber = bytes, !.Bytes = partNumber]

\* Progress{PartNumber: m.currentPartNumber, Bytes: n}
Progress(i, partNumber, bytes) ==
  [Blank EXCEPT !.inv = i, !.kind = "event", !.name = "Progress",
                !.PartNumber = partNumber, !.Bytes = bytes]

Retry(i, partNumber, retryNumber, maxRetries) ==
  [Blank EXCEPT !.inv = i, !.kind = "event", !.name = "Retry",
                !.PartNumber = partNumber, !.RetryNumber = retryNumber,
                !.MaxRetries = maxRetries]

Complete(i, bytes) ==
  [Blank EXCEPT !.inv = i, !.kind = "event", !.name = "Complete",
                !.Bytes = bytes]

Error(i, e) ==
  [Blank EXCEPT !.inv = i, !.kind = "event", !.name = "Error", !.Err = e]

\* reader.Read(buf) returning (k, e); off is the number of bytes the source
\* had delivered before.
ReadCall(i, off, k, e) ==
  [Blank EXCEPT !.inv = i, !.kind = "call", !.name = "read", !.off = off,
                !.Bytes = k, !.Err = <<e>>, !.ok = (e = "nil")]

\* ------------------------------------------------------------ EnglishJoin
\* What the i-th iteration (0-based) of EnglishJoin's loop writes to the
\* builder, as a sequence of pieces.
EnglishJoinPiece(words, oxfordComma, i) ==
  IF i = 0 THEN <<words[1]>>
  ELSE IF Len(words) > 1 /\ i = Len(words) - 1
       THEN (IF oxfordComma /\ i > 2 THEN <<",">> ELSE <<>>)
            \o <<" and", " ", words[i + 1]>>
       ELSE <<", ", words[i + 1]>>

RECURSIVE EnglishJoinFrom(_, _, _)
EnglishJoinFrom(words, oxfordComma, i) ==
  IF i >= Len(words) THEN <<>>
  ELSE EnglishJoinPiece(words, oxfordComma, i)
       \o EnglishJoinFrom(words, oxfordComma, i + 1)

EnglishJoin(words, oxfordComma) == EnglishJoinFrom(words, oxfordComma, 0)

RECURSIVE BuilderString(_)
\* b.String(): the pieces written to the builder, as one string.
BuilderString(pieces) ==
  IF pieces = <<>> THEN "" ELSE Head(pieces) \o BuilderString(Tail(pieces))

\* ------------------------------------------------------------------ Init
Config(accessKey, secretKey, bucket, endpoint, region, maxRetries, maxPartSize) ==
  [Endpoint |-> endpoint, Region |-> region, Bucket |-> bucket,
   AccessKey |-> accessKey, SecretKey |-> secretKey,
   MaxRetries |-> maxRetries, MaxPartSize |-> maxPartSize,
   svc |-> FALSE, res |-> NilRes, completedParts |-> <<>>,
   currentPartNumber |-> 0, path |-> 0, reader |-> 0]

NoFrame == [res |-> NilRes, MaxRetries |-> 0, currentPartNumber |-> 0,
            partNum |-> 0, chunkOff |-> 0, chunkLen |-> 0, tryNum |-> 0]
NoPart == [PartNumber |-> 0, ETag |-> <<>>]
NoSrc == [left |-> 0, off |-> 0, reads |-> 0]
NoBuf == [len |-> 0, off |-> 0]
\* The command-line tool before any event: handled counts the events whose
\* case of the switch has run, closes the executions of close(done), and
\* exited says that the main goroutine has returned (the process is gone).
NoCli == [handled |-> 0, closes |-> 0, exited |-> FALSE]
NoJoin == [words |-> <<>>, oxfordComma |-> FALSE, returned |-> FALSE, result |-> ""]

IsEventNamed(e, names) == e.kind = "event" /\ e.name \in names

Init ==
  /\ m \in { Config(a, s, b, "", "", r, p) :
               a \in {"", "AK"}, s \in {"", "SK"}, b \in {"", "bkt"},
               r \in -1..MaxRetriesBound, p \in 0..MaxPartBound }
  /\ pc = [i \in Invs |-> "idle"]
  /\ totalBytes = [i \in Invs |-> 0]
  /\ buf = [i \in Invs |-> NoBuf]
  /\ n = [i \in Invs |-> 0]
  /\ err = [i \in Invs |-> "nil"]
  /\ part = [i \in Invs |-> NoPart]
  /\ frame = [i \in Invs |-> NoFrame]
  /\ src = [i \in Invs |-> NoSrc]
  /\ nextId = 1
  /\ crashed = FALSE
  /\ hist = <<>>
  /\ join = NoJoin
  /\ cli = NoCli

\* ------------------------------------------------------------------ Send
\* m.Send(reader, path): reader number i is a fresh source that will deliver
\* size bytes; the task run(ch) is started.
Send(i) ==
  /\ ~crashed
  /\ pc[i] = "idle"
  /\ \E size \in 0..MaxSourceBytes :
       src' = [src EXCEPT ![i] = [left |-> size, off |-> 0, reads |-> 0]]
  /\ m' = [m EXCEPT !.reader = i, !.path = i]
  /\ pc' = [pc EXCEPT ![i] = "run"]
  /\ UNCHANGED <<totalBytes, buf, n, err, part, frame, nextId, crashed, hist, join, cli>>

\* ------------------------------------------------------- run: the prologue
ApplyDefaults(mm) ==
  [mm EXCEPT !.MaxRetries = IF @ = 0 THEN DefaultMaxRetries ELSE @,
             !.MaxPartSize = IF @ = 0 THEN DefaultMaxPartSize ELSE @,
             !.Endpoint = IF @ = "" THEN DefaultEndpoint ELSE @,
             !.Region = IF @ = "" THEN DefaultRegion ELSE @]

\* A slip in the validation: the Bucket test is left out.
Missing_NoBucket(mm) ==
  (IF mm.AccessKey = "" THEN <<"AccessKey">> ELSE <<>>)
  \o (IF mm.SecretKey = "" THEN <<"SecretKey">> ELSE <<>>)

Missing(mm) ==
  (IF mm.AccessKey = "" THEN <<"AccessKey">> ELSE <<>>)
  \o (IF mm.SecretKey = "" THEN <<"SecretKey">> ELSE <<>>)
  \o (IF mm.Bucket = "" THEN <<"Bucket">> ELSE <<>>)

MissingErr(missing) == <<"missing ">> \o EnglishJoin(missing, TRUE)

\* run, from its entry to the top of the read loop, or to the send of the
\* missing-fields Error.
Start(i) ==
  /\ ~crashed
  /\ pc[i] = "run"
  /\ LET d == ApplyDefaults(m)
         missing == Missing(d)
     IN IF Len(missing) > 0
        THEN /\ m' = d
             /\ pc' = [pc EXCEPT ![i] = "sendMissingErr"]
             /\ UNCHANGED <<totalBytes, buf>>
        ELSE /\ m' = [d EXCEPT !.svc = TRUE, !.currentPartNumber = 1]
             /\ totalBytes' = [totalBytes EXCEPT ![i] = 0]
             /\ buf' = [buf EXCEPT ![i] = [len |-> d.MaxPartSize, off |-> 0]]
             /\ pc' = [pc EXCEPT ![i] = "read"]
  /\ UNCHANGED <<n, err, part, frame, src, nextId, crashed, hist, join, cli>>

\* ch <- Error{errors.New("missing " + EnglishJoin(missing, true))}; return
SendMissingError(i) ==
  /\ ~crashed
  /\ pc[i] = "sendMissingErr"
  /\ hist' = Append(hist, Error(i, MissingErr(Missing(m))))
  /\ pc' = [pc EXCEPT ![i] = "done"]
  /\ UNCHANGED <<m, totalBytes, buf, n, err, part, frame, src, nextId, crashed, join, cli>>

\* --------------------------------------------------------- the environment
\* The results (k, e) reader.Read(buf) can return from a source in state s
\* into a buffer of length len: k <= len bytes, never more than the source
\* has left; io.EOF only once every byte has been delivered (possibly
\* together with the last bytes); a read error at any time; a bounded
\* number of reads without error, which may return no bytes at all.
ReadOutcomes(s, len) ==
  { o \in [n : 0..Min(len, s.left), err : {"nil", "EOF", "readErr"}] :
      /\ (o.err = "EOF" => o.n = s.left)
      /\ (o.err = "nil" => s.reads < MaxReads) }

AfterRead(s, o) ==
  [left |-> s.left - o.n, off |-> s.off + o.n,
   reads |-> IF o.err = "nil" THEN s.reads + 1 ELSE s.reads]

\* The backend calls, as history entries.
InitiateCall(i, mm, ok) ==
  [Blank EXCEPT !.inv = i, !.kind = "call", !.name = "initiate", !.ok = ok,
                !.UploadId = IF ok THEN nextId ELSE 0,
                !.Err = IF ok THEN <<>> ELSE <<"initErr">>]

UploadPartCall(i, f, ok) ==
  [Blank EXCEPT !.inv = i, !.kind = "call", !.name = "uploadPart",
                !.UploadId = f.res.UploadId, !.PartNumber = f.partNum,
                !.off = f.chunkOff, !.Bytes = f.chunkLen, !.ok = ok,
                !.Err = IF ok THEN <<>> ELSE <<"partErr">>]

CompleteCall(i, mm, ok) ==
  [Blank EXCEPT !.inv = i, !.kind = "call", !.name = "completeUpload",
                !.UploadId = mm.res.UploadId, !.parts = mm.completedParts,
                !.ok = ok, !.Err = IF ok THEN <<>> ELSE <<"completeErr">>]

AbortCall(i, mm, ok) ==
  [Blank EXCEPT !.inv = i, !.kind = "call", !.name = "abortUpload",
                !.UploadId = mm.res.UploadId, !.ok = ok,
                !.Err = IF ok THEN <<>> ELSE <<"abortErr">>]

\* --------------------------------------------------------------- uploadPart
\* for tryNum <= m.MaxRetries
LoopCond(tryNum, maxRetries) == tryNum <= maxRetries

\* A slip in the last-attempt test: off by one.
IsLastTry_OffByOne(tryNum, maxRetries) == tryNum = maxRetries + 1

\* if tryNum == m.MaxRetries
IsLastTry(tryNum, maxRetries) == tryNum = maxRetries

\* Where uploadPart stands after evaluating its loop condition, and the
\* error it has returned if the loop is left.
LoopTop(f) == IF LoopCond(f.tryNum, f.MaxRetries) THEN "attempt" ELSE "abort"
LoopErr(f, e) ==
  IF LoopCond(f.tryNum, f.MaxRetries) THEN e ELSE "could not upload part"

\* The activation of m.uploadPart(ch, buf[:n], m.currentPartNumber): the
\* receiver is a copy of mm; chunk is the len bytes read at offset off.
NewFrame(mm, off, len) ==
  [res |-> mm.res, MaxRetries |-> mm.MaxRetries,
   currentPartNumber |-> mm.currentPartNumber,
   partNum |-> mm.currentPartNumber,
   chunkOff |-> off, chunkLen |-> len, tryNum |-> 1]

RetryEvent(i, f) == Retry(i, f.currentPartNumber, f.tryNum, f.MaxRetries)

\* A slip in the completed part: the attempt number is recorded as the part
\* number.
CompletedPart_TryNum(f) == [PartNumber |-> f.tryNum, ETag |-> <<f.res.UploadId, f.partNum>>]

\* &s3.CompletedPart{ETag: res.ETag, PartNumber: aws.Int64(int64(partNum))}
CompletedPart(f) == [PartNumber |-> f.partNum, ETag |-> <<f.res.UploadId, f.partNum>>]

\* ------------------------------------------------------- run: the read loop
\* n, err := m.reader.Read(buf) and the branches on err.
Read(i) ==
  /\ ~crashed
  /\ pc[i] = "read"
  /\ LET r == m.reader
         s == src[r]
     IN \E o \in ReadOutcomes(s, buf[i].len) :
          /\ src' = [src EXCEPT ![r] = AfterRead(s, o)]
          /\ hist' = Append(hist, ReadCall(i, s.off, o.n, o.err))
          /\ n' = [n EXCEPT ![i] = o.n]
          /\ buf' = [buf EXCEPT ![i].off = s.off]
          \* part is declared anew in each iteration (part, err := ...)
          /\ part' = [part EXCEPT ![i] = NoPart]
          /\ IF o.err = "EOF"
             THEN /\ pc' = [pc EXCEPT ![i] = "complete"]
                  /\ err' = [err EXCEPT ![i] = o.err]
                  /\ UNCHANGED frame
             ELSE IF o.err # "nil"
             THEN /\ pc' = [pc EXCEPT ![i] = "abort"]
                  /\ err' = [err EXCEPT ![i] = o.err]
                  /\ UNCHANGED frame
             ELSE IF m.res.nil
             THEN /\ pc' = [pc EXCEPT ![i] = "initiate"]
                  /\ err' = [err EXCEPT ![i] = o.err]
                  /\ UNCHANGED frame
             ELSE LET f == NewFrame(m, s.off, o.n)
                  IN /\ frame' = [frame EXCEPT ![i] = f]
                     /\ pc' = [pc EXCEPT ![i] = LoopTop(f)]
                     /\ err' = [err EXCEPT ![i] = LoopErr(f, "nil")]
  /\ UNCHANGED <<m, totalBytes, nextId, crashed, join, cli>>

\* A slip in the failed-initiate path: Complete is sent instead of Error.
InitiateFailed_Complete(i, e) == Complete(i, 0)

\* The event sent after a failed m.svc.CreateMultipartUpload(input):
\*   if err != nil { ch <- Error{err}; return }
InitiateFailed(i, e) == Error(i, <<e>>)

\* m.res, err = m.svc.CreateMultipartUpload(input).  The SDK returns a
\* non-nil output in both cases; the output of a failed call has no UploadId.
Initiate(i) ==
  /\ ~crashed
  /\ pc[i] = "initiate"
  /\ \E ok \in BOOLEAN :
       /\ hist' = Append(hist, InitiateCall(i, m, ok))
       /\ IF ok
          THEN LET mm == [m EXCEPT !.res = Output(nextId)]
                   f == NewFrame(mm, buf[i].off, n[i])
               IN /\ m' = mm
                  /\ nextId' = nextId + 1
                  /\ frame' = [frame EXCEPT ![i] = f]
                  /\ pc' = [pc EXCEPT ![i] = LoopTop(f)]
                  /\ err' = [err EXCEPT ![i] = LoopErr(f, "nil")]
          ELSE /\ m' = [m EXCEPT !.res = Output(0)]
               /\ err' = [err EXCEPT ![i] = "initErr"]
               /\ pc' = [pc EXCEPT ![i] = "sendInitiateErr"]
               /\ UNCHANGED <<nextId, frame>>
  /\ UNCHANGED <<totalBytes, buf, n, part, src, crashed, join, cli>>

\* One iteration of uploadPart's loop: res, err := m.svc.UploadPart(partInput).
Attempt(i) ==
  /\ ~crashed
  /\ pc[i] = "attempt"
  /\ LET f == frame[i]
     IN \E ok \in BOOLEAN :
          IF ok
          THEN /\ hist' = Append(hist, UploadPartCall(i, f, ok))
               /\ part' = [part EXCEPT ![i] = CompletedPart(f)]
               /\ err' = [err EXCEPT ![i] = "nil"]
               /\ pc' = [pc EXCEPT ![i] = "progress"]
               /\ UNCHANGED frame
          ELSE IF IsLastTry(f.tryNum, f.MaxRetries)
          THEN /\ hist' = Append(hist, UploadPartCall(i, f, ok))
               \* return nil, err
               /\ part' = [part EXCEPT ![i] = NoPart]
               /\ err' = [err EXCEPT ![i] = "partErr"]
               /\ pc' = [pc EXCEPT ![i] = "abort"]
               /\ UNCHANGED frame
          ELSE /\ hist' = Append(hist, UploadPartCall(i, f, ok))
               /\ pc' = [pc EXCEPT ![i] = "sendRetry"]
               /\ UNCHANGED <<err, part, frame>>
  /\ UNCHANGED <<m, totalBytes, buf, n, src, nextId, crashed, join, cli>>

\* A slip in the running total: totalBytes = n.
AddBytes_Assign(total, k) == k

\* totalBytes += n
AddBytes(total, k) == total + k

\* A slip in the part counter: the increment is lost.
NextPartNumber_Stuck(p) == p

\* m.currentPartNumber++
NextPartNumber(p) == p + 1

\* ch <- Progress{...}; totalBytes += n; append; m.currentPartNumber++
PartDone(i) ==
  /\ ~crashed
  /\ pc[i] = "progress"
  /\ hist' = Append(hist, Progress(i, m.currentPartNumber, n[i]))
  /\ totalBytes' = [totalBytes EXCEPT ![i] = AddBytes(totalBytes[i], n[i])]
  /\ m' = [m EXCEPT !.completedParts = Append(@, part[i]),
                    !.currentPartNumber = NextPartNumber(@)]
  /\ pc' = [pc EXCEPT ![i] = "read"]
  /\ UNCHANGED <<buf, n, err, part, frame, src, nextId, crashed, join, cli>>

\* A slip in the compound message: the original cause is left out.
CombinedErr_AbortOnly(e, abortErr) == <<"error aborting the upload: ", abortErr>>

\* fmt.Errorf("upload error: %v, as well as an error aborting the upload: %v", err, abortErr)
CombinedErr(e, abortErr) ==
  <<"upload error: ", e, ", as well as an error aborting the upload: ", abortErr>>

\* A slip in Abort: the backend is not called.
AbortCalls_None(i, mm, ok) == <<>>

\* A slip in Abort: the backend is called a second time.
AbortCalls_Twice(i, mm, ok) == <<AbortCall(i, mm, ok), AbortCall(i, mm, TRUE)>>

\* The backend calls m.Abort() makes once it has built its input:
\*   _, err := m.svc.AbortMultipartUpload(input)
AbortCalls(i, mm, ok) == <<AbortCall(i, mm, ok)>>

\* The event the failure path sends after m.Abort() has returned:
\*   if abortErr := m.Abort(); abortErr != nil { ch <- Error{both}; return }
\*   ch <- Error{err}; return
AbortError(i, e, ok) == Error(i, IF ok THEN <<e>> ELSE CombinedErr(e, "abortErr"))

\* abortErr := m.Abort().  Abort dereferences m.res to build its input: a
\* nil m.res panics.  The task then stands at one of the two sends.
Abort(i) ==
  /\ ~crashed
  /\ pc[i] = "abort"
  /\ IF m.res.nil
     THEN /\ crashed' = TRUE
          /\ pc' = [pc EXCEPT ![i] = "panic"]
          /\ UNCHANGED hist
     ELSE /\ \E ok \in BOOLEAN :
               /\ hist' = hist \o AbortCalls(i, m, ok)
               /\ pc' = [pc EXCEPT ![i] = IF ok THEN "sendErr" ELSE "sendBothErr"]
          /\ UNCHANGED crashed
  /\ UNCHANGED <<m, totalBytes, buf, n, err, part, frame, src, nextId, join, cli>>

\* ch <- Error{...}; return, after the abort.
SendAbortError(i) ==
  /\ ~crashed
  /\ pc[i] \in {"sendErr", "sendBothErr"}
  /\ hist' = Append(hist, AbortError(i, err[i], pc[i] = "sendErr"))
  /\ pc' = [pc EXCEPT ![i] = "done"]
  /\ UNCHANGED <<m, totalBytes, buf, n, err, part, frame, src, nextId, crashed, join, cli>>

\* ch <- Error{err}; return, after the failed initiate call.
SendInitiateError(i) ==
  /\ ~crashed
  /\ pc[i] = "sendInitiateErr"
  /\ hist' = Append(hist, InitiateFailed(i, err[i]))
  /\ pc' = [pc EXCEPT ![i] = "done"]
  /\ UNCHANGED <<m, totalBytes, buf, n, err, part, frame, src, nextId, crashed, join, cli>>

\* ch <- Retry{...}; tryNum++, and the loop condition of uploadPart again.
SendRetry(i) ==
  /\ ~crashed
  /\ pc[i] = "sendRetry"
  /\ LET f == frame[i]
         g == [f EXCEPT !.tryNum = f.tryNum + 1]
     IN /\ hist' = Append(hist, RetryEvent(i, f))
        /\ frame' = [frame EXCEPT ![i] = g]
        /\ pc' = [pc EXCEPT ![i] = LoopTop(g)]
        /\ err' = [err EXCEPT ![i] = LoopErr(g, "nil")]
  /\ UNCHANGED <<m, totalBytes, buf, n, part, src, nextId, crashed, join, cli>>

\* res, err := m.complete().  complete dereferences m.res to build its input: a nil m.res panics.
Finish(i) ==
  /\ ~crashed
  /\ pc[i] = "complete"
  /\ IF m.res.nil
     THEN /\ crashed' = TRUE
          /\ pc' = [pc EXCEPT ![i] = "panic"]
          /\ UNCHANGED <<hist, err>>
     ELSE /\ \E ok \in BOOLEAN :
               /\ hist' = Append(hist, CompleteCall(i, m, ok))
               /\ err' = [err EXCEPT ![i] = IF ok THEN "nil" ELSE "completeErr"]
               /\ pc' = [pc EXCEPT ![i] = IF ok THEN "sendComplete" ELSE "sendCompleteErr"]
          /\ UNCHANGED crashed
  /\ UNCHANGED <<m, totalBytes, buf, n, part, frame, src, nextId, join, cli>>

\* if err != nil { ch <- Error{err} }: the send, with no return after it.
SendCompleteError(i) ==
  /\ ~crashed
  /\ pc[i] = "sendCompleteErr"
  /\ hist' = Append(hist, Error(i, <<err[i]>>))
  /\ pc' = [pc EXCEPT ![i] = "sendComplete"]
  /\ UNCHANGED <<m, totalBytes, buf, n, err, part, frame, src, nextId, crashed, join, cli>>

\* ch <- Complete{Bytes: totalBytes, Result: res}, then run returns.
SendComplete(i) ==
  /\ ~crashed
  /\ pc[i] = "sendComplete"
  /\ hist' = Append(hist, Complete(i, totalBytes[i]))
  /\ pc' = [pc EXCEPT ![i] = "done"]
  /\ UNCHANGED <<m, totalBytes, buf, n, err, part, frame, src, nextId, crashed, join, cli>>

\* One step of the background task of invocation i.
Step(i) ==
  \/ Start(i)
  \/ SendMissingError(i)
  \/ Read(i)
  \/ Initiate(i)
  \/ SendInitiateError(i)
  \/ Attempt(i)
  \/ SendRetry(i)
  \/ PartDone(i)
  \/ Abort(i)
  \/ SendAbortError(i)
  \/ Finish(i)
  \/ SendCompleteError(i)
  \/ SendComplete(i)

Next == Send(1) \/ \E i \in Invs : Step(i)

Spec == Init /\ [][Next]_vars

\* The scheduler runs the background task whenever it can take a step, the
\* consumer keeps receiving, and every read and backend call returns.
FairSpec == Spec /\ \A i \in Invs : WF_vars(Step(i))

\* The calls of m.Abort() the client has made itself and that reached the
\* backend (history entries of no invocation).
ClientAborts == { k \in DOMAIN hist : hist[k].inv = 0 }

\* The client calls the public method m.Abort() itself, at any time: the
\* same method as in the task's failure path, with the same panic on a nil
\* m.res.
ClientAbort ==
  /\ ~crashed
  /\ Cardinality(ClientAborts) < MaxClientAborts
  /\ IF m.res.nil
     THEN /\ crashed' = TRUE
          /\ UNCHANGED hist
     ELSE /\ \E ok \in BOOLEAN : hist' = hist \o AbortCalls(0, m, ok)
          /\ UNCHANGED crashed
  /\ UNCHANGED <<m, pc, totalBytes, buf, n, err, part, frame, src, nextId, join, cli>>

NextAbort == Next \/ ClientAbort

\* A client that, besides its one Send, calls m.Abort() itself.
AbortSpec == Init /\ [][NextAbort]_vars

\* The same MultipartUpload value used for a second Send once the task of
\* the first Send has returned.  (A second Send while the first task is
\* still running adds unsynchronised accesses to the fields of m; the reuse
\* of m.res and m.completedParts modelled here needs none of them.)
NextReuse == Send(1) \/ (pc[1] = "done" /\ Send(2)) \/ \E i \in Invs : Step(i)

\* The value has its keys, with or without a bucket, two attempts per part
\* and parts of one byte.
InitReuse ==
  /\ Init
  /\ m.AccessKey # "" /\ m.SecretKey # ""
  /\ m.MaxRetries = MaxRetriesBound
  /\ m.MaxPartSize = MaxPartBound

ReuseSpec == InitReuse /\ [][NextReuse]_vars

\* ------------------------------------------------- EnglishJoin on its own
\* The lists of at most MaxWords words over a two-word vocabulary.
WordLists == UNION { [1..k -> {"a", "b"}] : k \in 0..MaxWords }

\* A caller is about to call EnglishJoin(words, oxfordComma); no upload runs.
InitJoin ==
  /\ m = Config("", "", "", "", "", 0, 0)
  /\ pc = [i \in Invs |-> "idle"]
  /\ totalBytes = [i \in Invs |-> 0]
  /\ buf = [i \in Invs |-> NoBuf]
  /\ n = [i \in Invs |-> 0]
  /\ err = [i \in Invs |-> "nil"]
  /\ part = [i \in Invs |-> NoPart]
  /\ frame = [i \in Invs |-> NoFrame]
  /\ src = [i \in Invs |-> NoSrc]
  /\ nextId = 1
  /\ crashed = FALSE
  /\ hist = <<>>
  /\ join \in [words : WordLists, oxfordComma : BOOLEAN, returned : {FALSE},
               result : {""}]
  /\ cli = NoCli

\* The call returns b.String().
Join ==
  /\ ~join.returned
  /\ join' = [join EXCEPT !.returned = TRUE,
                          !.result = BuilderString(EnglishJoin(join.words, join.oxfordComma))]
  /\ UNCHANGED <<m, pc, totalBytes, buf, n, err, part, frame, src, nextId, crashed, hist, cli>>

NextJoin == Join

JoinSpec == InitJoin /\ [][NextJoin]_vars

\* ------------------------------------------------- the command-line tool
\* The events sent on ch so far, in order.
Sent(h) == LET IsSend(e) == e.kind = "event" IN SelectSeq(h, IsSend)

\* The defaults of the tool's configuration for ENDPOINT and REGION.
CfgEndpoint == "s3.amazonaws.com"
CfgRegion == "us-east-1"

\* The tool builds the value from its flags and configuration: the keys and
\* the bucket are set, endpoint and region are the flag's or the
\* configuration's value, never empty, and MaxPartSize is the --part-size
\* flag in megabytes.  It calls m.Send(os.Stdin, remotePath) once.
InitCli ==
  /\ m \in { Config("AK", "SK", "bkt", e, CfgRegion, MaxRetriesBound, Megabyte * p) :
               e \in {CfgEndpoint, DefaultEndpoint}, p \in 0..MaxPartBound }
  /\ pc = [i \in Invs |-> "idle"]
  /\ totalBytes = [i \in Invs |-> 0]
  /\ buf = [i \in Invs |-> NoBuf]
  /\ n = [i \in Invs |-> 0]
  /\ err = [i \in Invs |-> "nil"]
  /\ part = [i \in Invs |-> NoPart]
  /\ frame = [i \in Invs |-> NoFrame]
  /\ src = [i \in Invs |-> NoSrc]
  /\ nextId = 1
  /\ crashed = FALSE
  /\ hist = <<>>
  /\ join = NoJoin
  /\ cli = NoCli

\* A step of the library's task while the tool runs.  A send on the
\* unbuffered ch needs the event loop back at its select, that is, the case
\* of every earlier event has run.
Library ==
  /\ ~cli.exited
  /\ Next
  /\ Len(Sent(hist')) > Len(Sent(hist)) => cli.handled = Len(Sent(hist))

\* The event loop runs the case of the event it has received: Progress and
\* Retry print, Error and Complete print and close(done); closing the
\* closed channel panics.  The loop then goes back to its select.
Handle ==
  /\ ~crashed /\ ~cli.exited
  /\ cli.handled < Len(Sent(hist))
  /\ LET e == Sent(hist)[cli.handled + 1]
     IN IF IsEventNamed(e, {"Error", "Complete"})
        THEN /\ cli' = [cli EXCEPT !.handled = @ + 1, !.closes = @ + 1]
             /\ crashed' = (cli.closes >= 1)
        ELSE /\ cli' = [cli EXCEPT !.handled = @ + 1]
             /\ UNCHANGED crashed
  /\ UNCHANGED <<m, pc, totalBytes, buf, n, err, part, frame, src, nextId, hist, join>>

\* <-done; return nil: the main goroutine returns once done is closed, and
\* the process exits with it.
MainReturn ==
  /\ ~crashed /\ ~cli.exited
  /\ cli.closes >= 1
  /\ cli' = [cli EXCEPT !.exited = TRUE]
  /\ UNCHANGED <<m, pc, totalBytes, buf, n, err, part, frame, src, nextId, crashed, hist, join>>

NextCli == Library \/ Handle \/ MainReturn

CliSpec == InitCli /\ [][NextCli]_vars
\* ================================================================ claims
\* The history of invocation i: its reads, backend calls and events, in order.
H(i) == LET Mine(e) == e.inv = i IN SelectSeq(hist, Mine)

Range(s) == { s[k] : k \in DOMAIN s }

IsEvent(e, name) == e.kind = "event" /\ e.name = name
IsCall(e, name) == e.kind = "call" /\ e.name = name
IsTerminal(e) == IsEvent(e, "Complete") \/ IsEvent(e, "Error")

\* The positions of h, up to position k, that hold an event/call named name.
EventsUpTo(h, k, name) == { j \in 1..k : IsEvent(h[j], name) }
CallsUpTo(h, k, name) == { j \in 1..k : IsCall(h[j], name) }
Events(h, name) == EventsUpTo(h, Len(h), name)
Calls(h, name) == CallsUpTo(h, Len(h), name)

RECURSIVE ProgressBytes(_, _)
\* Sum of the Bytes fields of the Progress events among the first k entries.
ProgressBytes(h, k) ==
  IF k = 0 THEN 0
  ELSE ProgressBytes(h, k - 1) + (IF IsEvent(h[k], "Progress") THEN h[k].Bytes ELSE 0)

\* C1: in one Send invocation at most one terminal event (Complete or Error)
\* is sent, and after a terminal event the task sends no further event.
C1_TerminalIsLastEvent ==
  \A i \in Invs : \A h \in {H(i)} :
       \A k \in 1..Len(h) :
         IsTerminal(h[k]) => \A j \in (k + 1)..Len(h) : h[j].kind # "event"

HasTerminal(i) == \E e \in Range(H(i)) : IsTerminal(e)

\* C2: every Send invocation eventually sends a terminal event, given that
\* the consumer keeps receiving and every read and backend call returns.
C2_EventuallyTerminal ==
  \A i \in Invs : [](pc[i] = "run" => <>HasTerminal(i))

\* C3: when the source ends without a read error and completeUpload fails,
\* exactly one Error event carrying the completion failure is emitted, no
\* Complete event is emitted and abortUpload is never invoked.
C3_CompleteFailureIsOnlyError ==
  \A i \in Invs : \A h \in {H(i)} :
       \A k \in 1..Len(h) :
         (IsCall(h[k], "completeUpload") /\ ~h[k].ok) =>
           /\ IF k = Len(h)
              THEN pc[i] = "sendCompleteErr" /\ Events(h, "Error") = {}
              ELSE h[k + 1] = Error(i, h[k].Err) /\ Cardinality(Events(h, "Error")) = 1
           /\ Events(h, "Complete") = {}
           /\ Calls(h, "abortUpload") = {}

\* C4: for every upload that ends with a Complete event, the Bytes fields of
\* the Progress events emitted before it sum to the Complete event's Bytes.
C4_ProgressSumIsTotal ==
  \A i \in Invs : \A h \in {H(i)} :
       \A k \in 1..Len(h) :
         IsEvent(h[k], "Complete") => ProgressBytes(h, k) = h[k].Bytes

\* C4 witness: an upload of two non-empty parts has sent Complete.
C4_Witness ==
  \E h \in {H(1)} :
     /\ Events(h, "Complete") # {}
     /\ \E j, k \in Events(h, "Progress") : j # k /\ h[j].Bytes > 0 /\ h[k].Bytes > 0

RECURSIVE ProgressCounts(_, _)
\* The sequence whose j-th element is the number of Progress events among
\* the first j entries of h, for j up to k.
ProgressCounts(h, k) ==
  IF k = 0 THEN <<>>
  ELSE LET prev == ProgressCounts(h, k - 1)
           last == IF k = 1 THEN 0 ELSE prev[k - 1]
       IN Append(prev, last + (IF IsEvent(h[k], "Progress") THEN 1 ELSE 0))

\* C5: the Progress events carry part numbers 1, 2, ..., k in order without
\* gap or repeat; a Retry event for part N comes after the Progress event of
\* part N-1 and before any event of part N+1, and its part number is that of
\* the part whose upload was just attempted.
C5_PartNumbersInOrder ==
  \A i \in Invs : \A h \in {H(i)} :
       \A cnt \in {ProgressCounts(h, Len(h))} :
         \A k \in 1..Len(h) :
           \* cnt[k] - 1 Progress events precede a Progress event at k,
           \* cnt[k] Progress events precede a Retry event at k
           /\ IsEvent(h[k], "Progress") => h[k].PartNumber = cnt[k]
           /\ IsEvent(h[k], "Retry") =>
                /\ h[k].PartNumber = cnt[k] + 1
                /\ k > 1 /\ IsCall(h[k - 1], "uploadPart")
                /\ h[k].PartNumber = h[k - 1].PartNumber

\* C5 witness: part 1 was retried and done, then part 2 was retried and done.
C5_Witness ==
  \E h \in {H(1)} :
     \E a, b, c, d \in 1..Len(h) :
       /\ a < b /\ b < c /\ c < d
       /\ IsEvent(h[a], "Retry") /\ h[a].PartNumber = 1
       /\ IsEvent(h[b], "Progress") /\ h[b].PartNumber = 1
       /\ IsEvent(h[c], "Retry") /\ h[c].PartNumber = 2
       /\ IsEvent(h[d], "Progress") /\ h[d].PartNumber = 2
\* The source of invocation i delivers Size(i) bytes in total.
Size(i) == src[i].off + src[i].left

CeilDiv(a, b) == (a + b - 1) \div b

\* C6: for a source of S > 0 bytes and maximum part size P, a successful
\* upload emits exactly ceil(S / P) Progress events before Complete, however
\* the source splits its bytes across Read calls.
C6_PartCountIsCeil ==
  \A i \in Invs : \A h \in {H(i)} :
       (Events(h, "Complete") # {} /\ Events(h, "Error") = {} /\ Size(i) > 0) =>
         Cardinality(Events(h, "Progress")) = CeilDiv(Size(i), m.MaxPartSize)

\* The 1-based index of the uploadPart call at position k among the
\* uploadPart calls for the same part.
TryIndex(h, k) ==
  Cardinality({ j \in 1..k : IsCall(h[j], "uploadPart") /\ h[j].PartNumber = h[k].PartNumber })

\* C7: for every part the backend uploadPart call is attempted at most
\* maxRetries times; each failed attempt but the maxRetries-th is followed by
\* a Retry event whose retryNumber is the 1-based index of that attempt, so
\* retry numbers stay below maxRetries; after a success or the maxRetries-th
\* failure no further attempt is made for the part.
C7_BoundedRetry ==
  \A i \in Invs : \A h \in {H(i)} :
       \A k \in 1..Len(h) :
         /\ IsCall(h[k], "uploadPart") =>
              \A t \in {TryIndex(h, k)} :
                 /\ t <= m.MaxRetries
                 /\ (~h[k].ok /\ t < m.MaxRetries) =>
                      (IF k = Len(h) THEN pc[i] = "sendRetry"
                       ELSE h[k + 1] = Retry(i, h[k].PartNumber, t, m.MaxRetries))
                 /\ (~h[k].ok /\ t = m.MaxRetries) =>
                      (k < Len(h) => ~IsEvent(h[k + 1], "Retry"))
                 /\ (h[k].ok \/ t = m.MaxRetries) =>
                      \A j \in (k + 1)..Len(h) :
                        ~(IsCall(h[j], "uploadPart") /\ h[j].PartNumber = h[k].PartNumber)
         /\ IsEvent(h[k], "Retry") =>
              /\ k > 1 /\ IsCall(h[k - 1], "uploadPart") /\ ~h[k - 1].ok
              /\ h[k].RetryNumber = TryIndex(h, k - 1)
              /\ h[k].RetryNumber <= m.MaxRetries - 1

\* C7 witness: one part succeeded at its last allowed attempt and the next
\* part failed all its attempts, with maxRetries at least 2.
C7_Witness ==
  \E h \in {H(1)} :
     /\ m.MaxRetries >= 2
     /\ \E k \in Calls(h, "uploadPart") :
          h[k].ok /\ TryIndex(h, k) = m.MaxRetries /\ h[k].PartNumber = 1
     /\ \E k \in Calls(h, "uploadPart") :
          ~h[k].ok /\ TryIndex(h, k) = m.MaxRetries /\ h[k].PartNumber = 2
     /\ pc[1] = "done"

\* The position k of h holds the failure of the last allowed attempt of a part.
Exhausted(h, k) ==
  IsCall(h[k], "uploadPart") /\ ~h[k].ok /\ TryIndex(h, k) = m.MaxRetries

\* C8: if all maxRetries attempts for a part fail, abortUpload is invoked
\* exactly once, after the last failed attempt and before the terminal Error
\* event; after that there is no read, uploadPart or completeUpload call and
\* no Complete event.
C8_AbortAfterExhaustion ==
  \A i \in Invs : \A h \in {H(i)} :
       \A k \in 1..Len(h) :
         Exhausted(h, k) =>
           \* the task aborts, then sends the Error, then has returned
           /\ pc[i] \in {"abort", "sendErr", "sendBothErr", "done"}
           /\ pc[i] = "abort" => Len(h) = k
           /\ pc[i] \in {"sendErr", "sendBothErr"} => Len(h) = k + 1
           /\ pc[i] = "done" => Len(h) = k + 2
           \* what follows the last failed attempt is the one abortUpload
           \* call and then the terminal Error, and nothing else
           /\ Len(h) >= k + 1 => IsCall(h[k + 1], "abortUpload")
           /\ Len(h) >= k + 2 => IsEvent(h[k + 2], "Error")
           /\ Len(h) <= k + 2
           /\ Calls(h, "abortUpload") \subseteq {k + 1}
           /\ Events(h, "Error") \subseteq {k + 2}
           /\ \A j \in (k + 1)..Len(h) :
                ~IsCall(h[j], "read") /\ ~IsCall(h[j], "uploadPart")
           /\ Calls(h, "completeUpload") = {}
           /\ Events(h, "Complete") = {}

\* C8 witness: the second part failed all its attempts, the upload was
\* aborted, the Error was sent and the run has ended.
C8_Witness ==
  \E h \in {H(1)} :
     /\ pc[1] = "done"
     /\ \E k \in 1..Len(h) :
          /\ Exhausted(h, k) /\ h[k].PartNumber = 2 /\ m.MaxRetries >= 2
          /\ Len(h) = k + 2
          /\ IsCall(h[k + 1], "abortUpload")
          /\ IsEvent(h[k + 2], "Error")

\* The failure that made the task call Abort at position k.
Cause(h, k) ==
  IF k > 1 /\ h[k - 1].kind = "call" /\ ~h[k - 1].ok
  THEN h[k - 1].Err[1]
  ELSE "could not upload part"

\* C9: whenever abortUpload is invoked: if it succeeds the terminal Error
\* carries exactly the original cause; if it fails the single terminal Error
\* contains both the original cause and the abort failure; an abort failure
\* is never reported without the original cause nor as a second Error event.
C9_AbortErrorReporting ==
  \A i \in Invs : \A h \in {H(i)} :
       /\ \A k \in Calls(h, "abortUpload") :
            IF k = Len(h)
            THEN Events(h, "Error") = {} /\ pc[i] \in {"sendErr", "sendBothErr"}
            ELSE /\ Events(h, "Error") = {k + 1}
                 /\ h[k].ok => h[k + 1].Err = <<Cause(h, k)>>
                 /\ ~h[k].ok => {Cause(h, k), h[k].Err[1]} \subseteq Range(h[k + 1].Err)
       /\ \A k \in Events(h, "Error") :
            "abortErr" \in Range(h[k].Err) =>
              /\ k > 1 /\ IsCall(h[k - 1], "abortUpload") /\ ~h[k - 1].ok
              /\ Cause(h, k - 1) \in Range(h[k].Err)

\* C9 witness: after one uploaded part a read failed and the abort failed too.
C9_Witness ==
  \E h \in {H(1)} :
     \E k \in Calls(h, "abortUpload") :
       /\ ~h[k].ok
       /\ IsCall(h[k - 1], "read") /\ h[k - 1].Err = <<"readErr">>
       /\ Events(h, "Progress") # {}

FieldNames == {"AccessKey", "SecretKey", "Bucket"}
EmptyFields == { f \in FieldNames : m[f] = "" }

\* C10: if a required field (AccessKey, SecretKey, Bucket) is empty when Send
\* is invoked, the first and only event is an Error whose message names
\* exactly the empty fields, and the run has no source read, no backend call
\* and no Progress or Retry event.
C10_MissingFieldsOnlyError ==
  \A i \in Invs : \A h \in {H(i)} :
       (EmptyFields # {} /\ pc[i] # "idle") =>
         /\ pc[i] \in {"run", "sendMissingErr", "done"}
         /\ Len(h) = (IF pc[i] = "done" THEN 1 ELSE 0)
         /\ \A k \in 1..Len(h) :
              /\ IsEvent(h[k], "Error")
              /\ h[k].Err[1] = "missing "
              /\ Range(h[k].Err) \cap FieldNames = EmptyFields

\* C10 witness: a run with two of the three fields empty has ended.
C10_Witness ==
  /\ pc[1] = "done"
  /\ EmptyFields = {"AccessKey", "Bucket"}
  /\ Len(H(1)) = 1

\* C11: whenever a read of the source fails with an error other than io.EOF,
\* at any read of the run (the first included), the upload is aborted and
\* then exactly one terminal Error event carrying the read failure is sent;
\* no Complete event is sent and completeUpload is not called.
C11_ReadFailureAbortsThenError ==
  \A i \in Invs : \A h \in {H(i)} :
       \A k \in 1..Len(h) :
         (IsCall(h[k], "read") /\ h[k].Err = <<"readErr">>) =>
           /\ pc[i] \in {"abort", "sendErr", "sendBothErr", "done"}
           /\ Len(h) <= k + 2
           /\ pc[i] = "done" =>
                /\ Len(h) = k + 2
                /\ IsCall(h[k + 1], "abortUpload")
                /\ IsEvent(h[k + 2], "Error")
                /\ "readErr" \in Range(h[k + 2].Err)
                /\ Cardinality(Events(h, "Error")) = 1
           /\ Events(h, "Complete") = {}
           /\ Calls(h, "completeUpload") = {}

\* C12: two Send invocations on the same MultipartUpload value each initiate
\* their own session and keep their own part counter and completed-part
\* list: an invocation uploads its parts and completes under the upload
\* identifier its own initiate call returned, it numbers its parts from 1,
\* and the list it submits to completeUpload holds its own parts only.
C12_SendsAreIndependent ==
  \A i \in Invs : \A h \in {H(i)} :
       /\ \A k \in Calls(h, "uploadPart") \cup Calls(h, "completeUpload") :
            \E j \in CallsUpTo(h, k, "initiate") :
               h[j].ok /\ h[j].UploadId = h[k].UploadId
       /\ \A k \in Calls(h, "uploadPart") :
            h[k].PartNumber = Cardinality(EventsUpTo(h, k, "Progress")) + 1
       /\ \A k \in Calls(h, "completeUpload") :
            /\ Len(h[k].parts) = Cardinality(EventsUpTo(h, k, "Progress"))
            /\ \A q \in 1..Len(h[k].parts) :
                 /\ h[k].parts[q].PartNumber = q
                 /\ \E j \in CallsUpTo(h, k, "uploadPart") :
                      h[j].ok /\ h[k].parts[q].ETag = <<h[j].UploadId, h[j].PartNumber>>

\* The positions of h, up to position k, of the uploadPart calls that succeeded.
UploadedUpTo(h, k) == { j \in CallsUpTo(h, k, "uploadPart") : h[j].ok }

\* The number of source bytes accounted for by the entries of h at the
\* positions in S: where the last such entry's bytes end (0 for no entry).
EndOf(h, S) ==
  IF S = {} THEN 0
  ELSE LET last == CHOOSE j \in S : \A q \in S : q <= j
       IN h[last].off + h[last].Bytes

\* C13: in every upload that ends with a Complete event, the chunks handed
\* to the backend, concatenated in part order, are exactly the bytes the
\* source returned, each chunk at most maxPartSize long: no byte dropped or
\* duplicated, the bytes returned together with io.EOF included; and the
\* Complete event's total is the number of bytes the source delivered.
C13_ChunksAreTheSource ==
  \A i \in Invs : \A h \in {H(i)} :
       \A k \in Events(h, "Complete") :
         \A S \in {UploadedUpTo(h, k)} :
           /\ \A j \in S :
                /\ h[j].off = EndOf(h, { q \in S : q < j })
                /\ h[j].Bytes <= m.MaxPartSize
           /\ EndOf(h, S) = EndOf(h, CallsUpTo(h, k, "read"))
           /\ h[k].Bytes = EndOf(h, CallsUpTo(h, k, "read"))

\* The list parts holds, in order, the parts 1..Len(parts) that uploadPart
\* calls among the first k entries of h uploaded successfully.
IsOneToK(h, k, parts) ==
  \A q \in 1..Len(parts) :
    /\ parts[q].PartNumber = q
    /\ \E j \in UploadedUpTo(h, k) :
         h[j].PartNumber = q /\ parts[q].ETag = <<h[j].UploadId, q>>

\* C14: within one Send invocation on a fresh MultipartUpload, at every
\* point of the run the completed-part list holds the successfully uploaded
\* parts (all but a part whose Progress event is still being sent) with part
\* numbers exactly 1..k in ascending order, and the list submitted to
\* completeUpload is that list, with k the number of Progress events sent.
C14_CompletedPartsAreOneToK ==
  \A i \in Invs : \A h \in {H(i)} :
       (pc[i] # "idle") =>
         /\ IsOneToK(h, Len(h), m.completedParts)
         /\ Len(m.completedParts) =
              Cardinality(UploadedUpTo(h, Len(h))) - (IF pc[i] = "progress" THEN 1 ELSE 0)
         /\ \A k \in Calls(h, "completeUpload") :
              /\ h[k].parts = m.completedParts
              /\ IsOneToK(h, k, h[k].parts)
              /\ Len(h[k].parts) = Cardinality(EventsUpTo(h, k, "Progress"))

\* C14 witness: completeUpload was called with a list of two parts, the
\* second of them uploaded at its second attempt.
C14_Witness ==
  \E h \in {H(1)} :
     \E k \in Calls(h, "completeUpload") :
       /\ Len(h[k].parts) = 2
       /\ \E j \in CallsUpTo(h, k, "uploadPart") : ~h[j].ok /\ h[j].PartNumber = 2

\* The positions of the finalizing backend calls among the first k entries.
FinalizingUpTo(h, k) ==
  CallsUpTo(h, k, "completeUpload") \cup CallsUpTo(h, k, "abortUpload")

\* C15: for every upload whose remote session was successfully initiated,
\* exactly one finalizing backend call is made before the terminal event:
\* completeUpload once or abortUpload once, never both, never twice.
C15_ExactlyOneFinalizingCall ==
  \A i \in Invs : \A h \in {H(i)} :
       (\E j \in Calls(h, "initiate") : h[j].ok) =>
         /\ Cardinality(FinalizingUpTo(h, Len(h))) <= 1
         /\ \A k \in 1..Len(h) :
              IsTerminal(h[k]) => Cardinality(FinalizingUpTo(h, k)) = 1
         /\ pc[i] = "done" =>
              /\ Cardinality(FinalizingUpTo(h, Len(h))) = 1
              /\ \E k \in 1..Len(h) : IsTerminal(h[k])

\* C15 witness: a session was initiated, one part was uploaded, the next
\* read failed, the upload was aborted and the run has ended.
C15_Witness ==
  \E h \in {H(1)} :
     /\ pc[1] = "done"
     /\ \E j \in Calls(h, "initiate") : h[j].ok
     /\ Events(h, "Progress") # {}
     /\ \E k \in Calls(h, "abortUpload") : h[k].ok /\ IsCall(h[k - 1], "read")

\* C16: within one Send invocation the initiate call is made at most once,
\* only after a read has succeeded returning a chunk of non-zero length, and
\* before the first uploadPart call; a read that succeeds with zero bytes
\* does not open the remote session and is not uploaded as a part.
C16_InitiateAfterFirstBytes ==
  \A i \in Invs : \A h \in {H(i)} :
       /\ Cardinality(Calls(h, "initiate")) <= 1
       /\ \A k \in Calls(h, "initiate") :
            /\ CallsUpTo(h, k, "uploadPart") = {}
            /\ k > 1 /\ IsCall(h[k - 1], "read") /\ h[k - 1].ok /\ h[k - 1].Bytes > 0
       /\ \A k \in Calls(h, "uploadPart") : h[k].Bytes > 0

\* C17: exactly one Progress event is sent for each part whose backend
\* upload succeeded, after that success and before the next read, carrying
\* that part's number and the byte length of its chunk; no Progress event is
\* sent for a part whose attempts all failed.
C17_OneProgressPerUploadedPart ==
  \A i \in Invs : \A h \in {H(i)} :
       /\ \A k \in UploadedUpTo(h, Len(h)) :
            IF k = Len(h) THEN pc[i] = "progress"
            ELSE /\ IsEvent(h[k + 1], "Progress")
                 /\ h[k + 1].PartNumber = h[k].PartNumber
                 /\ h[k + 1].Bytes = h[k].Bytes
       /\ \A k \in Events(h, "Progress") :
            k > 1 /\ IsCall(h[k - 1], "uploadPart") /\ h[k - 1].ok
       /\ \A k \in Calls(h, "uploadPart") :
            Exhausted(h, k) =>
              \A j \in Events(h, "Progress") : h[j].PartNumber # h[k].PartNumber

\* C17 witness: part 1 was uploaded after a failed attempt and reported, a
\* second one-byte part was uploaded and reported, and the run read on.
C17_Witness ==
  \E h \in {H(1)} :
     \E a, k \in UploadedUpTo(h, Len(h)) :
       /\ h[a].PartNumber = 1 /\ a > 1 /\ IsEvent(h[a - 1], "Retry")
       /\ h[k].PartNumber = 2 /\ h[k].Bytes = 1
       /\ k + 2 <= Len(h) /\ IsCall(h[k + 2], "read")

RECURSIVE CommaSeparated(_, _)
\* The first k of the words, separated by ", ".
CommaSeparated(words, k) ==
  IF k = 1 THEN words[1]
  ELSE CommaSeparated(words, k - 1) \o ", " \o words[k]

\* C18: EnglishJoin(words, oxfordComma) returns one word alone, two words as
\* "a and b", and three or more words separated by ", " with the last word
\* preceded by ", and " when oxfordComma is true and by " and " when it is
\* false, for every list length.
C18_EnglishJoinText ==
  \A words \in {join.words} :
    (join.returned /\ Len(words) >= 1) =>
      join.result =
        IF Len(words) = 1 THEN words[1]
        ELSE IF Len(words) = 2 THEN words[1] \o " and " \o words[2]
        ELSE CommaSeparated(words, Len(words) - 1)
             \o (IF join.oxfordComma THEN ", and " ELSE " and ")
             \o words[Len(words)]

\* C19: no uploadPart, completeUpload or abortUpload step is taken while the
\* remote session does not exist: in every state in which the task invokes
\* one of them, an initiate call of the same invocation has succeeded and
\* the upload identifier it returned is stored in m.res; and a call of
\* abortUpload the client makes through m.Abort() names a session that an
\* initiate call has opened.
C19_SessionExistsWhenUsed ==
  /\ \A i \in Invs : \A h \in {H(i)} :
       (pc[i] \in {"attempt", "abort", "complete"}) =>
         /\ ~m.res.nil
         /\ \E j \in Calls(h, "initiate") : h[j].ok /\ h[j].UploadId = m.res.UploadId
  /\ \A k \in ClientAborts :
       \E j \in 1..k :
          IsCall(hist[j], "initiate") /\ hist[j].ok /\ hist[j].UploadId = hist[k].UploadId

\* C20: if the initiate call fails, the only event of the run is a single
\* Error carrying the initiate failure, and the run makes no uploadPart,
\* completeUpload or abortUpload call and no further read of the source.
C20_InitiateFailureIsOnlyError ==
  \A i \in Invs : \A h \in {H(i)} :
       \A k \in Calls(h, "initiate") :
         ~h[k].ok =>
           /\ IF k = Len(h) THEN pc[i] = "sendInitiateErr"
              ELSE pc[i] = "done" /\ Len(h) = k + 1 /\ h[k + 1] = Error(i, h[k].Err)
           /\ \A j \in 1..k : h[j].kind # "event"
           /\ Calls(h, "uploadPart") = {}
           /\ FinalizingUpTo(h, Len(h)) = {}

\* C20 witness: the source returned a byte, the initiate call failed and the
\* run has ended with bytes left in the source.
C20_Witness ==
  \E h \in {H(1)} :
     /\ pc[1] = "done"
     /\ src[1].left > 0
     /\ \E k \in Calls(h, "initiate") : ~h[k].ok /\ h[k - 1].Bytes > 0

\* C21: in the command-line tool's event loop the done channel is closed at
\* most once in any run, for every sequence of events the library sends for
\* one upload and every interleaving of the event loop with the main
\* goroutine that waits on done.
C21_DoneClosedAtMostOnce == cli.closes <= 1

\* C22: the fall-through return of uploadPart (the error "could not upload
\* part") is unreachable for every value of MaxRetries the configuration can
\* hold: a call of uploadPart that has returned an error returned it from
\* the failure of attempt number MaxRetries.
C22_FallThroughUnreachable ==
  \A i \in Invs : \A h \in {H(i)} :
       /\ err[i] # "could not upload part"
       /\ (pc[i] = "abort" /\ err[i] # "readErr") =>
            (Len(h) > 0 /\ Exhausted(h, Len(h)))
====
